---- MODULE Spec2Model ----
(***************************************************************************)
(* A model of dex (download and extract): the release asset scorer         *)
(* (platform.rs), the GitHub release locator (github.rs), the archive type *)
(* detector and extraction engine (extract.rs), the downloader             *)
(* (download.rs) and the command line driver (main.rs).                    *)
(*                                                                         *)
(* Strings are TLA+ strings; a character is a string of length one.  An    *)
(* Option<T> is a sequence of length at most one: None is << >> and        *)
(* Some(x) is <<x>>.                                                       *)
(***************************************************************************)
EXTENDS Integers, Sequences, FiniteSets, TLC

VARIABLES
    assets,     \* select_best_asset: the asset list (a sequence of Asset records)
    platform,   \* select_best_asset: the target platform string
    arch,       \* select_best_asset: the target architecture string
    idx,        \* select_best_asset: position of the `for asset in assets` loop
    best,       \* select_best_asset: Option<(asset index, score)>
    selected,   \* select_best_asset: the returned Option<asset index>
    selPc,      \* select_best_asset: "scan" | "done"
    arg,        \* the argument record of the pure function under test
    ret,        \* its return value, once called
    called,     \* whether the function has been applied
    zipEntries, \* extract_zip: the names of the archive's entries, by index
    zi,         \* extract_zip: the loop index i (from 1)
    fs,         \* the files and directories created so far: [loc, kind]
    zipPc,      \* extract_zip: "open" | "loop" | "ok" | "err" (| "idle")
    zipFailed,  \* extract_zip: the operation whose `?` returned the error, or ""
    handler,    \* extract_file: Option of the per-format function it dispatched to
    output_path, \* extract_single_compressed: Option of the path it writes to
    cli,        \* main: the parsed command line [url, output, keep, no_extract]
    mainPc,     \* main: "start" | "downloaded" | "extracted" | "exit" (| "idle")
    trace,      \* main: the external operations performed so far, in order
    downloaded_path, \* main: Option of the path download_file returned
    archiveOnDisk,   \* whether the downloaded file exists
    exitCode,   \* Option of the exit status of the process
    failed      \* main: Option of the step that returned Err: "download" | "extract"

selVars == <<assets, platform, arch, idx, best, selected, selPc>>
fnVars == <<arg, ret, called>>
zipVars == <<zipEntries, zi, fs, zipPc, zipFailed, handler, output_path>>
mainVars == <<cli, mainPc, trace, downloaded_path, archiveOnDisk, exitCode, failed>>
vars == <<selVars, fnVars, zipVars, mainVars>>

None == << >>
Some(x) == <<x>>

-----------------------------------------------------------------------------
(* str primitives of the Rust standard library, on ASCII text.             *)

UpperLetters == "ABCDEFGHIJKLMNOPQRSTUVWXYZ"
LowerLetters == "abcdefghijklmnopqrstuvwxyz"

\* The lowercase letter of each uppercase ASCII letter.
LowercaseOf ==
    [c \in { SubSeq(UpperLetters, k, k) : k \in 1..Len(UpperLetters) } |->
        LET k == CHOOSE k \in 1..Len(UpperLetters) : SubSeq(UpperLetters, k, k) = c
        IN  SubSeq(LowerLetters, k, k)]

\* char::to_lowercase, ASCII letters; every other character is unchanged.
char_to_lowercase(c) == IF c \in DOMAIN LowercaseOf THEN LowercaseOf[c] ELSE c

\* str::to_lowercase
RECURSIVE to_lowercase(_)
to_lowercase(s) ==
    IF s = "" THEN ""
    ELSE char_to_lowercase(SubSeq(s, 1, 1)) \o to_lowercase(SubSeq(s, 2, Len(s)))

\* str::ends_with
ends_with(s, suffix) ==
    /\ Len(suffix) <= Len(s)
    /\ SubSeq(s, Len(s) - Len(suffix) + 1, Len(s)) = suffix

\* str::starts_with
starts_with(s, prefix) ==
    /\ Len(prefix) <= Len(s)
    /\ SubSeq(s, 1, Len(prefix)) = prefix

\* str::contains
contains(s, pat) ==
    \E k \in 1..(Len(s) - Len(pat) + 1) : SubSeq(s, k, k + Len(pat) - 1) = pat

-----------------------------------------------------------------------------
(* platform.rs: the static tables.                                         *)

SKIP_EXTENSIONS == <<".sha256", ".sha512", ".sig", ".asc", ".sbom", ".json", ".txt", ".md">>

SKIP_KEYWORDS == <<"source", "src">>

\* (canonical, aliases)
PLATFORM_ALIASES ==
    << <<"linux", <<"linux">> >>,
       <<"macos", <<"macos", "darwin", "osx", "apple">> >>,
       <<"windows", <<"windows", "win64", "win32", "win", "msvc", "pc-windows">> >> >>

ARCH_ALIASES ==
    << <<"x86_64", <<"x86_64", "x86-64", "amd64", "x64">> >>,
       <<"arm64", <<"arm64", "aarch64">> >> >>

extractable ==
    <<".tar.gz", ".tgz", ".tar.bz2", ".tbz2", ".tar.xz", ".txz", ".tar.zst", ".tzst", ".zip",
      ".gz", ".bz2", ".xz", ".zst">>

PLATFORM_SCORE == 10
ARCH_SCORE == 5
PREFERRED_FORMAT_SCORE == 2
EXTRACTABLE_SCORE == 1

-----------------------------------------------------------------------------
(* platform.rs: the helpers of select_best_asset.                          *)

\* `canonical == value_lower || aliases.iter().any(|a| *a == value_lower)`
is_in_group(group, value_lower) ==
    \/ group[1] = value_lower
    \/ \E k \in 1..Len(group[2]) : group[2][k] = value_lower

\* The body of matches_alias_group once the value is lowercased: the first
\* group that holds the value decides; with no such group, a direct
\* substring test.
RECURSIVE alias_scan(_, _, _, _)
alias_scan(name_lower, value_lower, groups, g) ==
    IF g > Len(groups) THEN contains(name_lower, value_lower)
    ELSE IF is_in_group(groups[g], value_lower)
         THEN \E k \in 1..Len(groups[g][2]) : contains(name_lower, groups[g][2][k])
         ELSE alias_scan(name_lower, value_lower, groups, g + 1)

\* Mutant of matches_alias_group: the target is not lowercased.
matches_alias_group_as_given(name_lower, value, groups) ==
    alias_scan(name_lower, value, groups, 1)

matches_alias_group(name_lower, value, groups) ==
    alias_scan(name_lower, to_lowercase(value), groups, 1)

\* platform_aliases_contain(platform, target): the first group whose
\* canonical name is `target` decides; false when there is none.
RECURSIVE platform_scan(_, _, _)
platform_scan(platform_lower, target, g) ==
    IF g > Len(PLATFORM_ALIASES) THEN FALSE
    ELSE IF PLATFORM_ALIASES[g][1] = target
         THEN is_in_group(PLATFORM_ALIASES[g], platform_lower)
         ELSE platform_scan(platform_lower, target, g + 1)

platform_aliases_contain(plat, target) ==
    platform_scan(to_lowercase(plat), target, 1)

\* Mutant of is_extractable_ext: the zstd suffixes are not listed.
is_extractable_ext_no_zst(name) ==
    \E k \in 1..Len(extractable) :
        /\ extractable[k] \notin { ".tar.zst", ".tzst", ".zst" }
        /\ ends_with(name, extractable[k])

is_extractable_ext(name) ==
    \E k \in 1..Len(extractable) : ends_with(name, extractable[k])

\* `SKIP_EXTENSIONS.iter().any(|ext| name_lower.ends_with(ext))`
skip_by_extension(name_lower) ==
    \E k \in 1..Len(SKIP_EXTENSIONS) : ends_with(name_lower, SKIP_EXTENSIONS[k])

\* `SKIP_KEYWORDS.iter().any(|kw| name_lower.contains(kw))`
skip_by_keyword(name_lower) ==
    \E k \in 1..Len(SKIP_KEYWORDS) : contains(name_lower, SKIP_KEYWORDS[k])

\* Mutant of format_bonus: the windows branch is lost, .tar.gz is preferred
\* for every target.
format_bonus_no_windows(name_lower, plat) ==
    IF ends_with(name_lower, ".tar.gz") \/ ends_with(name_lower, ".tgz")
    THEN PREFERRED_FORMAT_SCORE
    ELSE IF is_extractable_ext(name_lower) THEN EXTRACTABLE_SCORE
    ELSE 0

\* The format bonus of one asset name for a target platform.
format_bonus(name_lower, plat) ==
    IF platform_aliases_contain(plat, "windows")
    THEN IF ends_with(name_lower, ".zip") THEN PREFERRED_FORMAT_SCORE
         ELSE IF is_extractable_ext(name_lower) THEN EXTRACTABLE_SCORE
         ELSE 0
    ELSE IF ends_with(name_lower, ".tar.gz") \/ ends_with(name_lower, ".tgz")
         THEN PREFERRED_FORMAT_SCORE
         ELSE IF is_extractable_ext(name_lower) THEN EXTRACTABLE_SCORE
         ELSE 0

\* Mutant of is_denylisted: the keyword test is lost.
is_denylisted_ext_only(name_lower) == skip_by_extension(name_lower)

\* Whether the loop `continue`s on the denylist (lines 62 and 67).
is_denylisted(name_lower) ==
    skip_by_extension(name_lower) \/ skip_by_keyword(name_lower)

\* `if !platform_match || !arch_match { continue; }` reads these two.
platform_match(name_lower, plat) == matches_alias_group(name_lower, plat, PLATFORM_ALIASES)

arch_match(name_lower, ar) == matches_alias_group(name_lower, ar, ARCH_ALIASES)

\* Mutant of asset_score: `&&` for `||`, one match is enough.
asset_score_either(name, plat, ar) ==
    LET name_lower == to_lowercase(name)
        pm == platform_match(name_lower, plat)
        am == arch_match(name_lower, ar)
    IN  IF is_denylisted(name_lower) THEN None
        ELSE IF ~pm /\ ~am THEN None
        ELSE Some((IF pm THEN PLATFORM_SCORE ELSE 0) + (IF am THEN ARCH_SCORE ELSE 0)
                  + format_bonus(name_lower, plat))

\* Mutant of asset_score: no format bonus.
asset_score_no_bonus(name, plat, ar) ==
    LET name_lower == to_lowercase(name)
    IN  IF is_denylisted(name_lower) THEN None
        ELSE IF ~platform_match(name_lower, plat) THEN None
        ELSE IF ~arch_match(name_lower, ar) THEN None
        ELSE Some(PLATFORM_SCORE + ARCH_SCORE)

\* The score one loop iteration computes for an asset name: None when the
\* iteration `continue`s before the comparison with the incumbent.
asset_score(name, plat, ar) ==
    LET name_lower == to_lowercase(name)
        pm == platform_match(name_lower, plat)
        am == arch_match(name_lower, ar)
    IN  IF is_denylisted(name_lower) THEN None
        ELSE IF ~pm \/ ~am THEN None
        ELSE Some(PLATFORM_SCORE + ARCH_SCORE + format_bonus(name_lower, plat))

\* Mutant of keeps_incumbent: `<` for `<=`, an equal score replaces.
keeps_incumbent_on_less(b, score) == b # None /\ score < b[1].score

\* `Some((_, best_score)) if score <= *best_score => {}`: the incumbent stays.
keeps_incumbent(b, score) == b # None /\ score <= b[1].score

\* One iteration of `for asset in assets`: the new value of `best`.
scan_asset(b, i, name, plat, ar) ==
    LET sc == asset_score(name, plat, ar)
    IN  IF sc = None THEN b
        ELSE IF keeps_incumbent(b, sc[1]) THEN b
        ELSE Some([asset |-> i, score |-> sc[1]])

-----------------------------------------------------------------------------
(* select_best_asset as a state machine: one step per loop iteration, then *)
(* the return.                                                             *)

MaxAssets == 2

\* Asset names offered by a release.
AssetNames ==
    { "t-linux-amd64.tar.gz", "t-linux-amd64.zip", "T-Linux-X86_64.tgz", "t-linux-amd64",
      "t-linux-amd64.tar.gz.sha256", "t-src-linux-amd64.tar.gz",
      "t-win64-x64.zip", "t-windows-amd64.tar.gz",
      "t-darwin-arm64.tar.gz", "tool-darwin-x86_64.zip",
      "t-linux-arm64.tar.gz", "t-freebsd-amd64.txz", "checksums.txt" }

\* make_assets of the tests: the url is derived from the name.
make_asset(n) == [name |-> n, url |-> "https://example.com/" \o n]

RECURSIVE SeqsUpTo(_, _)
SeqsUpTo(S, n) ==
    IF n = 0 THEN { << >> }
    ELSE LET shorter == SeqsUpTo(S, n - 1)
         IN  shorter \cup { Append(q, x) : q \in { r \in shorter : Len(r) = n - 1 }, x \in S }

TargetPlatforms == { "linux", "windows", "Win64", "Darwin", "freebsd" }
TargetArchs == { "x86_64", "AMD64", "aarch64" }

FnIdle ==
    /\ arg = None
    /\ ret = None
    /\ called = FALSE

ZipIdle ==
    /\ zipEntries = << >>
    /\ zi = 1
    /\ fs = {}
    /\ zipPc = "idle"
    /\ zipFailed = ""
    /\ handler = None
    /\ output_path = None

MainIdle ==
    /\ cli = None
    /\ mainPc = "idle"
    /\ trace = << >>
    /\ downloaded_path = None
    /\ archiveOnDisk = FALSE
    /\ exitCode = None
    /\ failed = None

InitSelect ==
    /\ assets \in SeqsUpTo({ make_asset(n) : n \in AssetNames }, MaxAssets)
    /\ platform \in TargetPlatforms
    /\ arch \in TargetArchs
    /\ idx = 1
    /\ best = None
    /\ selected = None
    /\ selPc = "scan"
    /\ FnIdle
    /\ ZipIdle
    /\ MainIdle

ScanAsset ==
    /\ selPc = "scan"
    /\ idx <= Len(assets)
    /\ best' = scan_asset(best, idx, assets[idx].name, platform, arch)
    /\ idx' = idx + 1
    /\ UNCHANGED <<assets, platform, arch, selected, selPc, fnVars, zipVars, mainVars>>

\* `best.map(|(asset, _)| asset)`
SelectReturn ==
    /\ selPc = "scan"
    /\ idx > Len(assets)
    /\ selected' = IF best = None THEN None ELSE Some(best[1].asset)
    /\ selPc' = "done"
    /\ UNCHANGED <<assets, platform, arch, idx, best, fnVars, zipVars, mainVars>>

NextSelect == ScanAsset \/ SelectReturn

SpecSelect == InitSelect /\ [][NextSelect]_vars

-----------------------------------------------------------------------------
(* matches_alias_group applied to one (file name, target, table) input, the *)
(* way select_best_asset calls it: on the lowercased file name.            *)

\* Input generation only: the uppercase of a string, and its capitalisation.
UppercaseOf ==
    [c \in { SubSeq(LowerLetters, k, k) : k \in 1..Len(LowerLetters) } |->
        LET k == CHOOSE k \in 1..Len(LowerLetters) : SubSeq(LowerLetters, k, k) = c
        IN  SubSeq(UpperLetters, k, k)]

RECURSIVE Uppercase(_)
Uppercase(s) ==
    IF s = "" THEN ""
    ELSE LET c == SubSeq(s, 1, 1)
         IN  (IF c \in DOMAIN UppercaseOf THEN UppercaseOf[c] ELSE c)
                 \o Uppercase(SubSeq(s, 2, Len(s)))

Capitalize(s) == IF s = "" THEN "" ELSE Uppercase(SubSeq(s, 1, 1)) \o SubSeq(s, 2, Len(s))

CaseVariants(s) == { s, Uppercase(s), Capitalize(s) }

AliasTable(t) == IF t = "platform" THEN PLATFORM_ALIASES ELSE ARCH_ALIASES

\* The names of one group: its canonical name and every alias.
GroupNames(group) == { group[1] } \cup { group[2][k] : k \in 1..Len(group[2]) }

TableNames(t) == UNION { GroupNames(AliasTable(t)[g]) : g \in 1..Len(AliasTable(t)) }

\* Identifiers of no group, passed as explicit overrides.
UnmappedNames(t) == IF t = "platform" THEN { "freebsd" } ELSE { "riscv64" }

AliasInputs ==
    UNION { { [table |-> t, value |-> v, name |-> n] :
                v \in UNION { CaseVariants(x) : x \in TableNames(t) \cup UnmappedNames(t) },
                n \in { "pkg-1.0.bin" } \cup
                      { "pkg-" \o y \o "-1.0" :
                          y \in UNION { CaseVariants(x) : x \in TableNames(t) \cup UnmappedNames(t) } } } :
            t \in { "platform", "arch" } }

SelIdle ==
    /\ assets = << >>
    /\ platform = ""
    /\ arch = ""
    /\ idx = 1
    /\ best = None
    /\ selected = None
    /\ selPc = "idle"

InitAlias ==
    /\ arg \in AliasInputs
    /\ ret = None
    /\ called = FALSE
    /\ SelIdle
    /\ ZipIdle
    /\ MainIdle

CallMatchesAliasGroup ==
    /\ ~called
    /\ ret' = Some(matches_alias_group(to_lowercase(arg.name), arg.value, AliasTable(arg.table)))
    /\ called' = TRUE
    /\ UNCHANGED <<arg, selVars, zipVars, mainVars>>

NextAlias == CallMatchesAliasGroup

SpecAlias == InitAlias /\ [][NextAlias]_vars

-----------------------------------------------------------------------------
(* extract.rs: the archive type detector.  An ArchiveType is the name of   *)
(* its variant.                                                            *)

ArchiveType == { "TarGz", "TarBz2", "TarXz", "TarZst", "Zip", "Gz", "Bz2", "Xz", "Zst" }

\* Mutant of detect_archive_type: the simple suffixes are tested first.
detect_archive_type_simple_first(path) ==
    LET path_str == to_lowercase(path)
    IN  IF ends_with(path_str, ".zip") THEN Some("Zip")
        ELSE IF ends_with(path_str, ".gz") THEN Some("Gz")
        ELSE IF ends_with(path_str, ".bz2") THEN Some("Bz2")
        ELSE IF ends_with(path_str, ".xz") THEN Some("Xz")
        ELSE IF ends_with(path_str, ".zst") THEN Some("Zst")
        ELSE IF ends_with(path_str, ".tar.gz") \/ ends_with(path_str, ".tgz") THEN Some("TarGz")
        ELSE IF ends_with(path_str, ".tar.bz2") \/ ends_with(path_str, ".tbz2") THEN Some("TarBz2")
        ELSE IF ends_with(path_str, ".tar.xz") \/ ends_with(path_str, ".txz") THEN Some("TarXz")
        ELSE IF ends_with(path_str, ".tar.zst") \/ ends_with(path_str, ".tzst") THEN Some("TarZst")
        ELSE None

\* Mutant of detect_archive_type: the path is tested as it is written.
detect_archive_type_as_written(path) ==
    LET path_str == path
    IN  IF ends_with(path_str, ".tar.gz") \/ ends_with(path_str, ".tgz") THEN Some("TarGz")
        ELSE IF ends_with(path_str, ".tar.bz2") \/ ends_with(path_str, ".tbz2") THEN Some("TarBz2")
        ELSE IF ends_with(path_str, ".tar.xz") \/ ends_with(path_str, ".txz") THEN Some("TarXz")
        ELSE IF ends_with(path_str, ".tar.zst") \/ ends_with(path_str, ".tzst") THEN Some("TarZst")
        ELSE IF ends_with(path_str, ".zip") THEN Some("Zip")
        ELSE IF ends_with(path_str, ".gz") THEN Some("Gz")
        ELSE IF ends_with(path_str, ".bz2") THEN Some("Bz2")
        ELSE IF ends_with(path_str, ".xz") THEN Some("Xz")
        ELSE IF ends_with(path_str, ".zst") THEN Some("Zst")
        ELSE None

detect_archive_type(path) ==
    LET path_str == to_lowercase(path)
    IN  IF ends_with(path_str, ".tar.gz") \/ ends_with(path_str, ".tgz") THEN Some("TarGz")
        ELSE IF ends_with(path_str, ".tar.bz2") \/ ends_with(path_str, ".tbz2") THEN Some("TarBz2")
        ELSE IF ends_with(path_str, ".tar.xz") \/ ends_with(path_str, ".txz") THEN Some("TarXz")
        ELSE IF ends_with(path_str, ".tar.zst") \/ ends_with(path_str, ".tzst") THEN Some("TarZst")
        ELSE IF ends_with(path_str, ".zip") THEN Some("Zip")
        ELSE IF ends_with(path_str, ".gz") THEN Some("Gz")
        ELSE IF ends_with(path_str, ".bz2") THEN Some("Bz2")
        ELSE IF ends_with(path_str, ".xz") THEN Some("Xz")
        ELSE IF ends_with(path_str, ".zst") THEN Some("Zst")
        ELSE None

is_extractable(path) == detect_archive_type(path) # None

\* Paths handed to the detector: a stem, a suffix, in three letter cases.
PathStems == { "file", "out/data.csv", "v1.2/pkg.tar", "" }
PathSuffixes ==
    { ".tar.gz", ".tgz", ".tar.bz2", ".tbz2", ".tar.xz", ".txz", ".tar.zst", ".tzst",
      ".zip", ".gz", ".bz2", ".xz", ".zst",
      "", ".txt", ".pdf", ".tar", ".gzip", ".tar.gz.sha256", ".zip.tmp", "gz", ".tar.gz/" }
DetectInputs ==
    UNION { CaseVariants(stem \o suffix) : stem \in PathStems, suffix \in PathSuffixes }

InitDetect ==
    /\ arg \in { [path |-> x] : x \in DetectInputs }
    /\ ret = None
    /\ called = FALSE
    /\ SelIdle
    /\ ZipIdle
    /\ MainIdle

\* ret is the Option<ArchiveType> of detect_archive_type.
CallDetectArchiveType ==
    /\ ~called
    /\ ret' = detect_archive_type(arg.path)
    /\ called' = TRUE
    /\ UNCHANGED <<arg, selVars, zipVars, mainVars>>

NextDetect == CallDetectArchiveType

SpecDetect == InitDetect /\ [][NextDetect]_vars

-----------------------------------------------------------------------------
(* The two recognizers of archive names side by side: is_extractable_ext,  *)
(* which select_best_asset applies to the lowercased asset name for the    *)
(* format bonus, and is_extractable, which main applies to the downloaded  *)
(* file.                                                                   *)

\* Lowercased file names: those of the detector's paths and of the assets.
FormatInputs == { to_lowercase(x) : x \in DetectInputs \cup AssetNames }

InitFormats ==
    /\ arg \in { [name |-> n] : n \in FormatInputs }
    /\ ret = None
    /\ called = FALSE
    /\ SelIdle
    /\ ZipIdle
    /\ MainIdle

\* ret holds the answer of each of the two on the same name.
CallBothRecognizers ==
    /\ ~called
    /\ ret' = Some([scorer |-> is_extractable_ext(arg.name),
                    detector |-> is_extractable(arg.name)])
    /\ called' = TRUE
    /\ UNCHANGED <<arg, selVars, zipVars, mainVars>>

NextFormats == CallBothRecognizers

SpecFormats == InitFormats /\ [][NextFormats]_vars

-----------------------------------------------------------------------------
(* github.rs: parse_github_url.  A release reference is a record           *)
(* [owner, repo, tag], tag an Option.                                      *)

\* str::strip_prefix
strip_prefix(s, prefix) ==
    IF starts_with(s, prefix) THEN Some(SubSeq(s, Len(prefix) + 1, Len(s))) ELSE None

\* str::trim_end_matches(char): every trailing occurrence is removed.
RECURSIVE trim_end_matches(_, _)
trim_end_matches(s, c) ==
    IF s # "" /\ SubSeq(s, Len(s), Len(s)) = c
    THEN trim_end_matches(SubSeq(s, 1, Len(s) - 1), c)
    ELSE s

\* str::split(char), collected: the pieces between the separators; the
\* empty string splits into one empty piece.
RECURSIVE split_from(_, _, _, _)
split_from(s, c, start, k) ==
    IF k > Len(s) THEN << SubSeq(s, start, Len(s)) >>
    ELSE IF SubSeq(s, k, k) = c
         THEN << SubSeq(s, start, k - 1) >> \o split_from(s, c, k + 1, k + 1)
         ELSE split_from(s, c, start, k + 1)

split(s, c) == split_from(s, c, 1, 1)

\* Mutant of match_segments: anything under /owner/repo/releases is taken as
\* the latest release.
match_segments_any_release(segments) ==
    IF Len(segments) = 2
    THEN Some([owner |-> segments[1], repo |-> segments[2], tag |-> None])
    ELSE IF Len(segments) = 5 /\ segments[3] = "releases" /\ segments[4] = "tag"
    THEN Some([owner |-> segments[1], repo |-> segments[2], tag |-> Some(segments[5])])
    ELSE IF Len(segments) >= 3 /\ segments[3] = "releases"
    THEN Some([owner |-> segments[1], repo |-> segments[2], tag |-> None])
    ELSE None

\* `match segments.as_slice()`
match_segments(segments) ==
    IF Len(segments) = 2
    THEN Some([owner |-> segments[1], repo |-> segments[2], tag |-> None])
    ELSE IF \/ Len(segments) = 3 /\ segments[3] = "releases"
            \/ Len(segments) = 4 /\ segments[3] = "releases" /\ segments[4] = "latest"
    THEN Some([owner |-> segments[1], repo |-> segments[2], tag |-> None])
    ELSE IF Len(segments) = 5 /\ segments[3] = "releases" /\ segments[4] = "tag"
    THEN Some([owner |-> segments[1], repo |-> segments[2], tag |-> Some(segments[5])])
    ELSE None

\* `url.strip_prefix("https://github.com/").or_else(|| url.strip_prefix("http://github.com/"))`
github_path(url) ==
    IF strip_prefix(url, "https://github.com/") # None
    THEN strip_prefix(url, "https://github.com/")
    ELSE strip_prefix(url, "http://github.com/")

\* Mutant of parse_github_url: the trailing slash is not trimmed.
parse_github_url_untrimmed(url) ==
    IF github_path(url) = None THEN None
    ELSE match_segments(split(github_path(url)[1], "/"))

parse_github_url(url) ==
    IF github_path(url) = None THEN None
    ELSE match_segments(split(trim_end_matches(github_path(url)[1], "/"), "/"))

is_github_release_url(url) == parse_github_url(url) # None

\* URLs handed to the parser: scheme and host, the first segments, the
\* segments after them, and trailing slashes.
MaxTail == 4
MaxTrailingSlashes == 2

UrlOrigins ==
    { "https://github.com/", "http://github.com/", "ftp://github.com/",
      "https://example.com/", "https://api.github.com/" }
UrlHeads == { << >>, <<"o">>, <<"o", "r">>, <<"", "r">>, <<"o", "">> }
TailSegments == { "releases", "latest", "tag", "v2.0", "blob" }

RECURSIVE Join(_, _)
Join(segs, sep) ==
    IF segs = << >> THEN ""
    ELSE IF Len(segs) = 1 THEN segs[1]
    ELSE segs[1] \o sep \o Join(Tail(segs), sep)

RECURSIVE Repeat(_, _)
Repeat(c, n) == IF n = 0 THEN "" ELSE c \o Repeat(c, n - 1)

UrlInputs ==
    { [origin |-> o, segs |-> h \o t, slashes |-> n,
       url |-> o \o Join(h \o t, "/") \o Repeat("/", n)] :
        o \in UrlOrigins, h \in UrlHeads, t \in SeqsUpTo(TailSegments, MaxTail),
        n \in 0..MaxTrailingSlashes }

InitUrl ==
    /\ arg \in UrlInputs
    /\ ret = None
    /\ called = FALSE
    /\ SelIdle
    /\ ZipIdle
    /\ MainIdle

\* ret is the Option of parse_github_url; only arg.url is read.
CallParseGithubUrl ==
    /\ ~called
    /\ ret' = parse_github_url(arg.url)
    /\ called' = TRUE
    /\ UNCHANGED <<arg, selVars, zipVars, mainVars>>

NextUrl == CallParseGithubUrl

SpecUrl == InitUrl /\ [][NextUrl]_vars

-----------------------------------------------------------------------------
(* github.rs: resolve_asset_url.  The release is what the GitHub API       *)
(* answers: [tag_name, assets], an asset a record [name,                   *)
(* browser_download_url].  The result is Ok((url, name)) or an error       *)
(* message.                                                                *)

ResolveOk(url, name) == [ok |-> TRUE, url |-> url, name |-> name]
ResolveErr(e) == [ok |-> FALSE, error |-> e]

\* `.map(|a| Asset { name: a.name.clone(), url: a.browser_download_url.clone() })`
to_assets(release_assets) ==
    [i \in 1..Len(release_assets) |->
        [name |-> release_assets[i].name, url |-> release_assets[i].browser_download_url]]

\* Mutant of no_match_error: the release is not named.
no_match_error_untagged(plat, ar, tag_name) ==
    "No matching asset for platform=" \o plat \o ", arch=" \o ar

\* `format!("No matching asset for platform={platform}, arch={arch} in release {}", ..)`
no_match_error(plat, ar, tag_name) ==
    "No matching asset for platform=" \o plat \o ", arch=" \o ar \o " in release " \o tag_name

ReleaseAssetNames ==
    { "t-linux-amd64.tar.gz", "t-linux-amd64.zip", "t-win64-x64.zip",
      "t-linux-amd64.tar.gz.sha256", "t-darwin-arm64.tar.gz" }

github_asset(n) ==
    [name |-> n, browser_download_url |-> "https://github.com/o/r/releases/download/v2.0/" \o n]

ReleaseTags == { "v2.0", "nightly" }

ResolveUrls ==
    { "https://github.com/o/r/releases/tag/v2.0", "https://github.com/o/r",
      "https://example.com/f/tool.tar.gz" }

InitResolve ==
    /\ arg \in [url : ResolveUrls,
                release : [tag_name : ReleaseTags,
                           assets : SeqsUpTo({ github_asset(n) : n \in ReleaseAssetNames },
                                             MaxAssets)]]
    /\ platform \in TargetPlatforms
    /\ arch \in TargetArchs
    /\ ret = None
    /\ called = FALSE
    /\ assets = << >>
    /\ idx = 1
    /\ best = None
    /\ selected = None
    /\ selPc = "idle"
    /\ ZipIdle
    /\ MainIdle

\* `parse_github_url(url).ok_or("Not a valid GitHub release URL")?` returns
\* the error.
ResolveNotGithub ==
    /\ ~called
    /\ parse_github_url(arg.url) = None
    /\ called' = TRUE
    /\ ret' = Some(ResolveErr("Not a valid GitHub release URL"))
    /\ UNCHANGED <<arg, selVars, zipVars, mainVars>>

\* A `?` returns the error of the client builder, of the request, of its
\* status or of the JSON decoder.
ResolveQueryFails ==
    /\ ~called
    /\ parse_github_url(arg.url) # None
    /\ called' = TRUE
    /\ \E e \in { "build", "send", "status", "json" } : ret' = Some(ResolveErr(e))
    /\ UNCHANGED <<arg, selVars, zipVars, mainVars>>

\* The release is received and its assets are handed to select_best_asset.
ResolveQuery ==
    /\ ~called
    /\ parse_github_url(arg.url) # None
    /\ called' = TRUE
    /\ assets' = to_assets(arg.release.assets)
    /\ selPc' = "scan"
    /\ UNCHANGED <<arg, ret, platform, arch, idx, best, selected, zipVars, mainVars>>

\* `.ok_or_else(|| format!(..))?` and `Ok((asset.url.clone(), asset.name.clone()))`
ResolveReturn ==
    /\ called
    /\ ret = None
    /\ selPc = "done"
    /\ ret' = Some(IF selected = None
                   THEN ResolveErr(no_match_error(platform, arch, arg.release.tag_name))
                   ELSE ResolveOk(assets[selected[1]].url, assets[selected[1]].name))
    /\ UNCHANGED <<arg, called, selVars, zipVars, mainVars>>

NextResolve ==
    \/ ResolveNotGithub
    \/ ResolveQueryFails
    \/ ResolveQuery
    \/ ScanAsset
    \/ SelectReturn
    \/ ResolveReturn

SpecResolve == InitResolve /\ [][NextResolve]_vars

-----------------------------------------------------------------------------
(* extract.rs: extract_zip.  A path is the sequence of its components: "/" *)
(* is the root, ".." the parent directory, anything else a normal          *)
(* component.  A location is a path resolved from the root, the sequence   *)
(* of directory names that leads to it.  The file system holds the files   *)
(* and directories the extraction created; the output directory and its    *)
(* ancestors exist beforehand (extract_file creates them).                 *)

OutputDir == <<"/", "work", "out">>

\* Path::components on Unix: repeated separators and "." are dropped, a
\* leading separator is the root.
path_components(name) ==
    LET normal == SelectSeq(split(name, "/"), LAMBDA x : x # "" /\ x # ".")
    IN  IF starts_with(name, "/") THEN <<"/">> \o normal ELSE normal

\* The component scan of ZipFile::enclosed_name: a root fails it, a parent
\* directory fails it when the depth is 0 and lowers the depth otherwise, a
\* normal component raises the depth.
RECURSIVE enclosed_scan(_, _, _)
enclosed_scan(comps, k, depth) ==
    IF k > Len(comps) THEN TRUE
    ELSE IF comps[k] = "/" THEN FALSE
    ELSE IF comps[k] = ".." THEN depth > 0 /\ enclosed_scan(comps, k + 1, depth - 1)
    ELSE enclosed_scan(comps, k + 1, depth + 1)

\* ZipFile::enclosed_name of the zip crate, as extract_zip relies on it: None
\* for a name that would leave the directory it is joined to.
enclosed_name(name) ==
    IF enclosed_scan(path_components(name), 1, 0) THEN Some(name) ELSE None

\* Mutant of zip_entry_path: the stored name is used unchecked.
zip_entry_path_unchecked(name) == Some(name)

\* `let Some(entry_path) = entry.enclosed_name() else { continue; }`
zip_entry_path(name) == enclosed_name(name)

\* ZipFile::is_dir: the stored name ends with a separator.
is_dir(name) == ends_with(name, "/")

\* Path::join: an absolute path replaces the base.
path_join(base, name) ==
    IF starts_with(name, "/") THEN path_components(name) ELSE base \o path_components(name)

\* Path::parent
parent(path) == SubSeq(path, 1, Len(path) - 1)

\* The location the operating system resolves a path to.
RECURSIVE resolve_from(_, _, _)
resolve_from(path, k, loc) ==
    IF k > Len(path) THEN loc
    ELSE resolve_from(path, k + 1,
            IF path[k] = "/" THEN << >>
            ELSE IF path[k] = ".." THEN SubSeq(loc, 1, Len(loc) - 1)
            ELSE Append(loc, path[k]))

resolve(path) == resolve_from(path, 1, << >>)

\* The directories that exist before the extraction.
Preexisting ==
    { [loc |-> SubSeq(resolve(OutputDir), 1, k), kind |-> "dir"] :
        k \in 0..Len(resolve(OutputDir)) }

\* fs::create_dir_all: every missing directory along the path is created.
create_dir_all(fsys, path) ==
    fsys \cup ({ [loc |-> resolve(SubSeq(path, 1, k)), kind |-> "dir"] : k \in 1..Len(path) }
                 \ Preexisting)

\* create_dir_all fails on a path that runs through a file.
dir_blocked(fsys, path) ==
    \E k \in 1..Len(path) : [loc |-> resolve(SubSeq(path, 1, k)), kind |-> "file"] \in fsys

\* File::create fails on a directory; it truncates an existing file.
file_blocked(fsys, path) ==
    [loc |-> resolve(path), kind |-> "dir"] \in (fsys \cup Preexisting)

file_create(fsys, path) == fsys \cup { [loc |-> resolve(path), kind |-> "file"] }

MaxEntries == 3

\* Stored entry names, crafted ones among them.
EntryNames ==
    { "a.txt", "d/", "d/b.txt", "d", "./e.txt", "d/../c.txt",
      "../evil.txt", "/etc/passwd", "d/../../evil/" }

InitZip ==
    /\ zipEntries \in SeqsUpTo(EntryNames, MaxEntries)
    /\ zi = 1
    /\ fs = {}
    /\ zipPc = "open"
    /\ zipFailed = ""
    /\ handler = Some("extract_zip")
    /\ output_path = None
    /\ SelIdle
    /\ FnIdle
    /\ MainIdle

\* `File::open(path)?` and `ZipArchive::new(file)?` succeed.
ZipOpen ==
    /\ zipPc = "open"
    /\ zipPc' = "loop"
    /\ UNCHANGED <<zipEntries, zi, fs, zipFailed, handler, output_path, selVars, fnVars, mainVars>>

ZipOpenFails ==
    /\ zipPc = "open"
    /\ zipPc' = "err"
    /\ zipFailed' = "open"
    /\ UNCHANGED <<zipEntries, zi, fs, handler, output_path, selVars, fnVars, mainVars>>

\* One iteration of `for i in 0..archive.len()` in which no `?` returns.
ZipEntry ==
    /\ zipPc = "loop"
    /\ zi <= Len(zipEntries)
    /\ LET name == zipEntries[zi]
           entry_path == zip_entry_path(name)
       IN  IF entry_path = None
           THEN fs' = fs
           ELSE LET full_path == path_join(OutputDir, entry_path[1])
                IN  IF is_dir(name)
                    THEN /\ ~dir_blocked(fs, full_path)
                         /\ fs' = create_dir_all(fs, full_path)
                    ELSE /\ ~dir_blocked(fs, parent(full_path))
                         /\ ~file_blocked(create_dir_all(fs, parent(full_path)), full_path)
                         /\ fs' = file_create(create_dir_all(fs, parent(full_path)), full_path)
    /\ zi' = zi + 1
    /\ UNCHANGED <<zipEntries, zipPc, zipFailed, handler, output_path, selVars, fnVars, mainVars>>

\* Mutant of ZipEntryFails: the output written so far is removed on an error.
ZipEntryFailsRollsBack ==
    /\ zipPc = "loop"
    /\ zi <= Len(zipEntries)
    /\ zipFailed' \in { "by_index", "create_dir_all", "create", "copy" }
    /\ fs' = {}
    /\ zipPc' = "err"
    /\ UNCHANGED <<zipEntries, zi, handler, output_path, selVars, fnVars, mainVars>>

\* One iteration in which a `?` returns the error of by_index, of
\* create_dir_all (some of the directories may be there), of File::create or
\* of io::copy (the file is there, in part).
ZipEntryFails ==
    /\ zipPc = "loop"
    /\ zi <= Len(zipEntries)
    /\ LET name == zipEntries[zi]
           entry_path == zip_entry_path(name)
           full_path == path_join(OutputDir, entry_path[1])
           dirs == IF is_dir(name) THEN full_path ELSE parent(full_path)
       IN  \/ /\ zipFailed' = "by_index"
              /\ fs' = fs
           \/ /\ entry_path # None
              /\ zipFailed' = "create_dir_all"
              /\ \E k \in 0..(Len(dirs) - 1) :
                    /\ ~dir_blocked(fs, SubSeq(dirs, 1, k))
                    /\ fs' = create_dir_all(fs, SubSeq(dirs, 1, k))
           \/ /\ entry_path # None
              /\ ~is_dir(name)
              /\ ~dir_blocked(fs, dirs)
              /\ zipFailed' = "create"
              /\ fs' = create_dir_all(fs, dirs)
           \/ /\ entry_path # None
              /\ ~is_dir(name)
              /\ ~dir_blocked(fs, dirs)
              /\ ~file_blocked(create_dir_all(fs, dirs), full_path)
              /\ zipFailed' = "copy"
              /\ fs' = file_create(create_dir_all(fs, dirs), full_path)
    /\ zipPc' = "err"
    /\ UNCHANGED <<zipEntries, zi, handler, output_path, selVars, fnVars, mainVars>>

\* `Ok(())` after the loop.
ZipReturn ==
    /\ zipPc = "loop"
    /\ zi > Len(zipEntries)
    /\ zipPc' = "ok"
    /\ UNCHANGED <<zipEntries, zi, fs, zipFailed, handler, output_path, selVars, fnVars, mainVars>>

NextZip == ZipOpen \/ ZipOpenFails \/ ZipEntry \/ ZipEntryFails \/ ZipReturn

SpecZip == InitZip /\ [][NextZip]_vars

-----------------------------------------------------------------------------
(* extract.rs: extract_file.  It creates the output directory, detects the *)
(* archive type and dispatches to the function of that type.  A result is  *)
(* a record [ok, error]: Ok(()) or the error returned.                     *)

Ok == [ok |-> TRUE, error |-> ""]
Err(e) == [ok |-> FALSE, error |-> e]

\* The arms of `match archive_type`: the function called ...
handler_of(kind) ==
    CASE kind = "TarGz" -> "extract_tar_gz"
      [] kind = "TarBz2" -> "extract_tar_bz2"
      [] kind = "TarXz" -> "extract_tar_xz"
      [] kind = "TarZst" -> "extract_tar_zst"
      [] kind = "Zip" -> "extract_zip"
      [] OTHER -> "extract_single_compressed"

\* ... and the format string handed to extract_single_compressed.
format_of(kind) ==
    CASE kind = "Gz" -> "gz"
      [] kind = "Bz2" -> "bz2"
      [] kind = "Xz" -> "xz"
      [] kind = "Zst" -> "zst"

TarHandlers == { "extract_tar_gz", "extract_tar_bz2", "extract_tar_xz", "extract_tar_zst" }

\* Path::file_name: the last component, unless it is the root or "..".
file_name(path) ==
    LET comps == path_components(path)
    IN  IF comps = << >> \/ comps[Len(comps)] \in { "/", ".." }
        THEN None
        ELSE Some(comps[Len(comps)])

\* str::strip_suffix: the suffix is compared as it is written.
strip_suffix(s, suffix) ==
    IF ends_with(s, suffix) THEN Some(SubSeq(s, 1, Len(s) - Len(suffix))) ELSE None

\* `let stem = path.file_name() ... .strip_suffix(..).unwrap_or("decompressed")`
single_stem(path, format) ==
    LET name == file_name(path)
        stripped == IF name = None THEN None ELSE strip_suffix(name[1], "." \o format)
    IN  IF stripped = None THEN "decompressed" ELSE stripped[1]

\* The entries of the archive at arg.path, when it is a zip archive.
ArchiveEntryNames == { "a.txt", "d/b.txt", "d", "../evil.txt" }

\* What a tar archive unpacks to is the tar crate's matter: one file stands
\* for it.
Unpacked == path_join(OutputDir, "unpacked")

InitExtract ==
    /\ arg \in { [path |-> x] : x \in DetectInputs }
    /\ ret = None
    /\ called = FALSE
    /\ zipEntries \in IF detect_archive_type(arg.path) = Some("Zip")
                      THEN SeqsUpTo(ArchiveEntryNames, MaxEntries)
                      ELSE { << >> }
    /\ zi = 1
    /\ fs = {}
    /\ zipPc = "idle"
    /\ zipFailed = ""
    /\ handler = None
    /\ output_path = None
    /\ SelIdle
    /\ MainIdle

\* `fs::create_dir_all(output_dir)?` returns the error.
ExtractFileCreateDirFails ==
    /\ ~called
    /\ called' = TRUE
    /\ ret' = Some(Err("create_dir_all"))
    /\ UNCHANGED <<arg, zipVars, selVars, mainVars>>

\* Mutant of ExtractFileUnknown: an unknown type is taken for a success.
ExtractFileUnknownIsOk ==
    /\ ~called
    /\ detect_archive_type(arg.path) = None
    /\ called' = TRUE
    /\ ret' = Some(Ok)
    /\ UNCHANGED <<arg, zipVars, selVars, mainVars>>

\* `detect_archive_type(path).ok_or("Unknown archive format")?` returns the
\* error.
ExtractFileUnknown ==
    /\ ~called
    /\ detect_archive_type(arg.path) = None
    /\ called' = TRUE
    /\ ret' = Some(Err("Unknown archive format"))
    /\ UNCHANGED <<arg, zipVars, selVars, mainVars>>

\* `match archive_type { ... }`: the call of the function of the type.
ExtractFileDispatch ==
    /\ ~called
    /\ detect_archive_type(arg.path) # None
    /\ called' = TRUE
    /\ handler' = Some(handler_of(detect_archive_type(arg.path)[1]))
    /\ zipPc' = IF detect_archive_type(arg.path) = Some("Zip") THEN "open" ELSE zipPc
    /\ UNCHANGED <<arg, ret, zipEntries, zi, fs, zipFailed, output_path, selVars, mainVars>>

\* extract_tar_*: open, decode, unpack, Ok(()).
ExtractTar ==
    /\ called
    /\ ret = None
    /\ handler # None
    /\ handler[1] \in TarHandlers
    /\ fs' = file_create(fs, Unpacked)
    /\ ret' = Some(Ok)
    /\ UNCHANGED <<arg, called, zipEntries, zi, zipPc, zipFailed, handler, output_path,
                   selVars, mainVars>>

\* extract_tar_*: a `?` returns the error of File::open, of the decoder or of
\* unpack (with the archive unpacked in part).
ExtractTarFails ==
    /\ called
    /\ ret = None
    /\ handler # None
    /\ handler[1] \in TarHandlers
    /\ \/ /\ ret' = Some(Err("open"))
          /\ fs' = fs
       \/ /\ ret' = Some(Err("unpack"))
          /\ fs' \in { fs, file_create(fs, Unpacked) }
    /\ UNCHANGED <<arg, called, zipEntries, zi, zipPc, zipFailed, handler, output_path,
                   selVars, mainVars>>

\* extract_single_compressed: the stem, the output path, open, create, copy,
\* Ok(()).
ExtractSingleCompressed ==
    /\ called
    /\ ret = None
    /\ handler = Some("extract_single_compressed")
    /\ LET format == format_of(detect_archive_type(arg.path)[1])
           out == path_join(OutputDir, single_stem(arg.path, format))
       IN  /\ output_path' = Some(out)
           /\ ~file_blocked(fs, out)
           /\ fs' = file_create(fs, out)
    /\ ret' = Some(Ok)
    /\ UNCHANGED <<arg, called, zipEntries, zi, zipPc, zipFailed, handler, selVars, mainVars>>

\* extract_single_compressed: a `?` returns the error of File::open, of
\* File::create (always, when the output path is a directory) or of the
\* decoder and io::copy (with the output file written in part).
ExtractSingleCompressedFails ==
    /\ called
    /\ ret = None
    /\ handler = Some("extract_single_compressed")
    /\ LET format == format_of(detect_archive_type(arg.path)[1])
           out == path_join(OutputDir, single_stem(arg.path, format))
       IN  /\ output_path' = Some(out)
           /\ \/ /\ ret' = Some(Err("open"))
                 /\ fs' = fs
              \/ /\ ret' = Some(Err("create"))
                 /\ fs' = fs
              \/ /\ ~file_blocked(fs, out)
                 /\ ret' = Some(Err("copy"))
                 /\ fs' = file_create(fs, out)
    /\ UNCHANGED <<arg, called, zipEntries, zi, zipPc, zipFailed, handler, selVars, mainVars>>

\* extract_zip returned: its result is the result of extract_file.
ExtractZipReturns ==
    /\ called
    /\ ret = None
    /\ handler = Some("extract_zip")
    /\ zipPc \in { "ok", "err" }
    /\ ret' = Some(IF zipPc = "ok" THEN Ok ELSE Err(zipFailed))
    /\ UNCHANGED <<arg, called, zipVars, selVars, mainVars>>

\* The steps of extract_zip, taken between the dispatch and the return.  They
\* leave arg, ret and called alone.
NextExtract ==
    \/ ExtractFileCreateDirFails
    \/ ExtractFileUnknown
    \/ ExtractFileDispatch
    \/ ExtractTar
    \/ ExtractTarFails
    \/ ExtractSingleCompressed
    \/ ExtractSingleCompressedFails
    \/ ZipOpen
    \/ ZipOpenFails
    \/ ZipEntry
    \/ ZipEntryFails
    \/ ZipReturn
    \/ ExtractZipReturns

SpecExtract == InitExtract /\ [][NextExtract]_vars

-----------------------------------------------------------------------------
(* main.rs and download.rs: one invocation of the program.  The trace      *)
(* records the operations on the outside world: the HTTP GET ("fetch"),    *)
(* the archive type detection of main ("detect"), extract_file ("extract") *)
(* and the removal of the archive ("remove").                              *)

Last(seq) == seq[Len(seq)]

\* download_file: the last piece of the URL after '/', up to the first '?'.
url_filename(url) == split(Last(split(url, "/")), "?")[1]

\* `output_dir.join(&filename)`
download_path(output_dir, url) == output_dir \o "/" \o url_filename(url)

CliUrls ==
    { "https://github.com/o/r/releases/tag/v2.0", "https://github.com/o/r",
      "https://example.com/f/tool.tar.gz", "https://example.com/f/tool.zip?token=1",
      "https://example.com/f/tool.bin", "https://example.com/f/" }

InitMain ==
    /\ cli \in [url : CliUrls, output : { ".", "out" }, keep : BOOLEAN, no_extract : BOOLEAN]
    /\ mainPc = "start"
    /\ trace = << >>
    /\ downloaded_path = None
    /\ archiveOnDisk = FALSE
    /\ exitCode = None
    /\ failed = None
    /\ SelIdle
    /\ FnIdle
    /\ ZipIdle

Fetch(url) == [op |-> "fetch", target |-> url]
Detect(path) == [op |-> "detect", target |-> path]
Extract(path) == [op |-> "extract", target |-> path]
Remove(path) == [op |-> "remove", target |-> path]

\* download_file returns Ok(file_path): the URL given on the command line was
\* fetched and written to the file.
MainDownload ==
    /\ mainPc = "start"
    /\ url_filename(cli.url) # ""
    /\ trace' = Append(trace, Fetch(cli.url))
    /\ downloaded_path' = Some(download_path(cli.output, cli.url))
    /\ archiveOnDisk' = TRUE
    /\ mainPc' = "downloaded"
    /\ UNCHANGED <<cli, exitCode, failed, selVars, fnVars, zipVars>>

\* download_file returns an error, main exits with status 1: the client could
\* not be built, the request failed or its status was no success, the output
\* directory or the file could not be created (the file never can when the
\* URL ends with '/'), or the copy of the body failed with the file in part
\* written.
MainDownloadFails ==
    /\ mainPc = "start"
    /\ \/ /\ trace' = trace
          /\ archiveOnDisk' = FALSE
       \/ /\ trace' = Append(trace, Fetch(cli.url))
          /\ archiveOnDisk' = FALSE
       \/ /\ url_filename(cli.url) # ""
          /\ trace' = Append(trace, Fetch(cli.url))
          /\ archiveOnDisk' = TRUE
    /\ exitCode' = Some(1)
    /\ failed' = Some("download")
    /\ mainPc' = "exit"
    /\ UNCHANGED <<cli, downloaded_path, selVars, fnVars, zipVars>>

\* `if cli.no_extract { ...; return; }`
MainNoExtract ==
    /\ mainPc = "downloaded"
    /\ cli.no_extract
    /\ exitCode' = Some(0)
    /\ mainPc' = "exit"
    /\ UNCHANGED <<cli, trace, downloaded_path, archiveOnDisk, failed, selVars, fnVars, zipVars>>

\* The else branch of `if extract::is_extractable(&downloaded_path)`.
MainSaved ==
    /\ mainPc = "downloaded"
    /\ ~cli.no_extract
    /\ ~is_extractable(downloaded_path[1])
    /\ trace' = Append(trace, Detect(downloaded_path[1]))
    /\ exitCode' = Some(0)
    /\ mainPc' = "exit"
    /\ UNCHANGED <<cli, downloaded_path, archiveOnDisk, failed, selVars, fnVars, zipVars>>

\* extract_file returns Ok.
MainExtract ==
    /\ mainPc = "downloaded"
    /\ ~cli.no_extract
    /\ is_extractable(downloaded_path[1])
    /\ trace' = trace \o << Detect(downloaded_path[1]), Extract(downloaded_path[1]) >>
    /\ mainPc' = "extracted"
    /\ UNCHANGED <<cli, downloaded_path, archiveOnDisk, exitCode, failed, selVars, fnVars, zipVars>>

\* Mutant of MainExtractFails: the error is dropped and main goes on.
MainExtractFailsGoesOn ==
    /\ mainPc = "downloaded"
    /\ ~cli.no_extract
    /\ is_extractable(downloaded_path[1])
    /\ trace' = trace \o << Detect(downloaded_path[1]), Extract(downloaded_path[1]) >>
    /\ failed' = Some("extract")
    /\ mainPc' = "extracted"
    /\ UNCHANGED <<cli, downloaded_path, archiveOnDisk, exitCode, selVars, fnVars, zipVars>>

\* extract_file returns an error, main exits with status 1.
MainExtractFails ==
    /\ mainPc = "downloaded"
    /\ ~cli.no_extract
    /\ is_extractable(downloaded_path[1])
    /\ trace' = trace \o << Detect(downloaded_path[1]), Extract(downloaded_path[1]) >>
    /\ exitCode' = Some(1)
    /\ failed' = Some("extract")
    /\ mainPc' = "exit"
    /\ UNCHANGED <<cli, downloaded_path, archiveOnDisk, selVars, fnVars, zipVars>>

\* Mutant of MainCleanup: the result of the removal decides the exit status.
MainCleanupEscalates ==
    /\ mainPc = "extracted"
    /\ IF cli.keep
       THEN /\ UNCHANGED <<trace, archiveOnDisk>>
            /\ exitCode' = Some(0)
       ELSE /\ trace' = Append(trace, Remove(downloaded_path[1]))
            /\ archiveOnDisk' \in BOOLEAN
            /\ exitCode' = Some(IF archiveOnDisk' THEN 1 ELSE 0)
    /\ mainPc' = "exit"
    /\ UNCHANGED <<cli, downloaded_path, failed, selVars, fnVars, zipVars>>

\* `if !cli.keep { let _ = std::fs::remove_file(&downloaded_path); }`: the
\* removal may fail, and its result is dropped.
MainCleanup ==
    /\ mainPc = "extracted"
    /\ IF cli.keep
       THEN UNCHANGED <<trace, archiveOnDisk>>
       ELSE /\ trace' = Append(trace, Remove(downloaded_path[1]))
            /\ archiveOnDisk' \in BOOLEAN
    /\ exitCode' = Some(0)
    /\ mainPc' = "exit"
    /\ UNCHANGED <<cli, downloaded_path, failed, selVars, fnVars, zipVars>>

NextMain ==
    \/ MainDownload
    \/ MainDownloadFails
    \/ MainNoExtract
    \/ MainSaved
    \/ MainExtract
    \/ MainExtractFails
    \/ MainCleanup

SpecMain == InitMain /\ [][NextMain]_vars

-----------------------------------------------------------------------------
(* Properties of select_best_asset.                                        *)

SelDone == selPc = "done"

\* The lowercased names of the first n assets of the list, in order.
RECURSIVE LowerNamesUpTo(_)
LowerNamesUpTo(n) ==
    IF n = 0 THEN << >> ELSE Append(LowerNamesUpTo(n - 1), to_lowercase(assets[n].name))

LowerNames == LowerNamesUpTo(Len(assets))

\* A lowercased name satisfies the platform match and the architecture match.
MatchesBoth(n) ==
    /\ matches_alias_group(n, platform, PLATFORM_ALIASES)
    /\ matches_alias_group(n, arch, ARCH_ALIASES)

\* The denylist as the specification words it.
DenySuffixes == { ".sha256", ".sha512", ".sig", ".asc", ".sbom", ".json", ".txt", ".md" }
DenyKeywords == { "source", "src" }

OnDenylist(n) ==
    \/ \E x \in DenySuffixes : ends_with(n, x)
    \/ \E w \in DenyKeywords : contains(n, w)

\* C1 as stated: select_best_asset returns some asset exactly when the list
\* holds an asset that satisfies both the platform and the architecture
\* match, and None otherwise.  Fails on a list whose only matching asset is
\* denylisted.
C1_SomeIffMatchesBoth ==
    SelDone =>
        LET low == LowerNames
        IN  (selected # None) <=> (\E i \in 1..Len(assets) : MatchesBoth(low[i]))

\* C1 amended: select_best_asset returns some asset exactly when the list
\* holds an asset that passes the denylist and satisfies both the platform
\* and the architecture match, and None otherwise.
C1_SomeIffCandidate ==
    SelDone =>
        LET low == LowerNames
        IN  (selected # None)
                <=> (\E i \in 1..Len(assets) : ~OnDenylist(low[i]) /\ MatchesBoth(low[i]))

\* An asset was returned although another asset that matches both is denylisted.
C1_Witness ==
    /\ SelDone
    /\ selected # None
    /\ LET low == LowerNames
       IN  \E i \in 1..Len(assets) : OnDenylist(low[i]) /\ MatchesBoth(low[i])

\* C2: neither the incumbent best nor the returned asset is ever an asset
\* whose lowercased name ends with a denylisted suffix or contains a
\* denylisted keyword.
C2_NeverDenylisted ==
    /\ best # None => ~OnDenylist(to_lowercase(assets[best[1].asset].name))
    /\ selected # None => ~OnDenylist(to_lowercase(assets[selected[1]].name))

\* The score a denylisted asset would have had, were it not skipped.
WouldScore(n) == PLATFORM_SCORE + ARCH_SCORE + format_bonus(n, platform)

\* An asset was returned while a denylisted asset that matches both would
\* have scored strictly higher.
C2_Witness ==
    /\ SelDone
    /\ selected # None
    /\ LET low == LowerNames
       IN  \E i \in 1..Len(assets) :
              /\ OnDenylist(low[i])
              /\ MatchesBoth(low[i])
              /\ WouldScore(low[i]) > best[1].score

\* The windows alias group as the table lists it.
WindowsNames == { "windows", "win64", "win32", "win", "msvc", "pc-windows" }
TargetIsWindows == to_lowercase(platform) \in WindowsNames

Candidate(n) == ~OnDenylist(n) /\ MatchesBoth(n)
IsZip(n) == ends_with(n, ".zip")
IsTarGz(n) == ends_with(n, ".tar.gz") \/ ends_with(n, ".tgz")

\* C6: among the assets that pass the denylist and match both, a windows
\* target gets a .zip asset whenever there is one, and any other target gets
\* a .tar.gz/.tgz asset whenever there is one, whatever the order of the list.
C6_PreferredFormat ==
    SelDone =>
        LET low == LowerNames
        IN  IF TargetIsWindows
            THEN (\E i \in 1..Len(assets) : IsZip(low[i]) /\ Candidate(low[i]))
                    => (selected # None /\ IsZip(low[selected[1]]))
            ELSE (\E i \in 1..Len(assets) : IsTarGz(low[i]) /\ Candidate(low[i]))
                    => (selected # None /\ IsTarGz(low[selected[1]]))

\* A windows target, every asset a candidate, a .tar.gz listed before the .zip,
\* and the .zip returned.
C6_Witness ==
    /\ SelDone
    /\ TargetIsWindows
    /\ LET low == LowerNames
       IN  /\ \A i \in 1..Len(assets) : Candidate(low[i])
           /\ \E i, j \in 1..Len(assets) :
                 i < j /\ IsTarGz(low[i]) /\ IsZip(low[j]) /\ selected = Some(j)

\* The scores of the first n assets of the list, in order (None for an asset
\* that is no candidate).
RECURSIVE ScoresUpTo(_)
ScoresUpTo(n) ==
    IF n = 0 THEN << >>
    ELSE Append(ScoresUpTo(n - 1), asset_score(assets[n].name, platform, arch))

Scores == ScoresUpTo(Len(assets))

\* The first asset, in list order, with the greatest score among the
\* candidates of the first n assets, and that score; None without candidate.
FirstMaxUpTo(n) ==
    LET sc == ScoresUpTo(n)
        cands == { i \in 1..n : sc[i] # None }
    IN  IF cands = {} THEN None
        ELSE LET m == CHOOSE i \in cands :
                        /\ \A j \in cands : sc[j][1] <= sc[i][1]
                        /\ \A j \in cands : sc[j][1] = sc[i][1] => i <= j
             IN  Some([asset |-> m, score |-> sc[m][1]])

\* C7: at every step of the scan the incumbent is the first asset, in list
\* order, that reaches the greatest score among the assets scanned so far
\* (so an equal score never replaces it), and the asset returned is the
\* first of the list with the greatest score.
C7_FirstMaxWins ==
    IF SelDone
    THEN LET whole == FirstMaxUpTo(Len(assets))
         IN  /\ best = whole
             /\ selected = IF whole = None THEN None ELSE Some(whole[1].asset)
    ELSE best = FirstMaxUpTo(idx - 1)

\* Two candidates tie on the greatest score and the earlier one is returned.
C7_Witness ==
    /\ SelDone
    /\ LET sc == Scores
       IN  \E i, j \in 1..Len(assets) :
              /\ i < j
              /\ sc[i] # None
              /\ sc[i] = sc[j]
              /\ FirstMaxUpTo(Len(assets)) = Some([asset |-> i, score |-> sc[i][1]])
              /\ selected = Some(i)

-----------------------------------------------------------------------------
(* Properties of matches_alias_group.                                      *)

\* C5: for every group of the table and every two names a, b of it
\* (canonical or alias), the target a in any letter case matches every file
\* name that contains b in any letter case.
C5_AliasSymmetric ==
    called =>
        \A g \in 1..Len(AliasTable(arg.table)) :
            LET names == GroupNames(AliasTable(arg.table)[g])
            IN  (/\ to_lowercase(arg.value) \in names
                 /\ \E b \in names : contains(to_lowercase(arg.name), b))
                    => ret = Some(TRUE)

\* An uppercase target matched a file name that holds another name of its
\* group, in mixed case, and not the target itself.
C5_Witness ==
    /\ called
    /\ ret = Some(TRUE)
    /\ arg.value # to_lowercase(arg.value)
    /\ arg.name # to_lowercase(arg.name)
    /\ ~contains(to_lowercase(arg.name), to_lowercase(arg.value))
    /\ to_lowercase(arg.value) \in TableNames(arg.table)

-----------------------------------------------------------------------------
(* Properties of detect_archive_type.                                      *)

\* The compound suffixes and the tar+codec kind of each.
CompoundKind ==
    [x \in { ".tar.gz", ".tgz", ".tar.bz2", ".tbz2", ".tar.xz", ".txz", ".tar.zst", ".tzst" } |->
        CASE x \in { ".tar.gz", ".tgz" } -> "TarGz"
          [] x \in { ".tar.bz2", ".tbz2" } -> "TarBz2"
          [] x \in { ".tar.xz", ".txz" } -> "TarXz"
          [] x \in { ".tar.zst", ".tzst" } -> "TarZst"]

PlainKinds == { "Gz", "Bz2", "Xz", "Zst" }

\* C4: a path whose lowercased form ends with a compound suffix is detected
\* as the tar+codec kind of that suffix, never as a plain single-stream kind.
C4_CompoundFirst ==
    called =>
        \A x \in DOMAIN CompoundKind :
            ends_with(to_lowercase(arg.path), x)
                => (ret = Some(CompoundKind[x]) /\ ret[1] \notin PlainKinds)

\* An uppercase path that ends with .tar.gz, hence also with .gz, was
\* detected as tar+gzip.
C4_Witness ==
    /\ called
    /\ arg.path # to_lowercase(arg.path)
    /\ ends_with(to_lowercase(arg.path), ".tar.gz")
    /\ ends_with(to_lowercase(arg.path), ".gz")
    /\ ret = Some("TarGz")

-----------------------------------------------------------------------------
(* Properties of parse_github_url, stated on the parts the URL was built   *)
(* from.                                                                   *)

\* The path segments once trailing slashes are stripped: an empty segment at
\* the end of the path is a trailing slash.
RECURSIVE DropTrailingEmpty(_)
DropTrailingEmpty(segs) ==
    IF segs # << >> /\ segs[Len(segs)] = ""
    THEN DropTrailingEmpty(SubSeq(segs, 1, Len(segs) - 1))
    ELSE segs

PathSegments == DropTrailingEmpty(arg.segs)

GithubOrigin == arg.origin \in { "https://github.com/", "http://github.com/" }

LatestShape ==
    \/ Len(PathSegments) = 2
    \/ Len(PathSegments) = 3 /\ PathSegments[3] = "releases"
    \/ Len(PathSegments) = 4 /\ PathSegments[3] = "releases" /\ PathSegments[4] = "latest"

TagShape ==
    Len(PathSegments) = 5 /\ PathSegments[3] = "releases" /\ PathSegments[4] = "tag"

\* C8: with scheme http or https, host github.com, non-empty owner and repo
\* and trailing slashes stripped, /owner/repo, /owner/repo/releases and
\* /owner/repo/releases/latest parse to (owner, repo, no tag) and
\* /owner/repo/releases/tag/<tag> parses to (owner, repo, tag).
C8_AcceptedShapes ==
    (called /\ GithubOrigin /\ Len(PathSegments) >= 2
            /\ PathSegments[1] # "" /\ PathSegments[2] # "") =>
        /\ LatestShape =>
              ret = Some([owner |-> PathSegments[1], repo |-> PathSegments[2], tag |-> None])
        /\ TagShape =>
              ret = Some([owner |-> PathSegments[1], repo |-> PathSegments[2],
                          tag |-> Some(PathSegments[5])])

\* A URL with a trailing slash and a tag was parsed to its owner, repo and tag.
C8_Witness ==
    /\ called
    /\ arg.url = "https://github.com/o/r/releases/tag/v2.0/"
    /\ ret = Some([owner |-> "o", repo |-> "r", tag |-> Some("v2.0")])

\* C9: a URL of another host or scheme, with fewer than two path segments,
\* or of any path shape other than the four accepted ones, parses to None.
C9_OtherShapesRejected ==
    (called /\ ~(GithubOrigin /\ (LatestShape \/ TagShape))) => ret = None

\* A github.com URL under /owner/repo/releases that is none of the accepted
\* shapes (a tag path with an extra segment) was rejected.
C9_Witness ==
    /\ called
    /\ GithubOrigin
    /\ Len(PathSegments) = 6
    /\ PathSegments[3] = "releases"
    /\ PathSegments[4] = "tag"
    /\ ret = None

-----------------------------------------------------------------------------
(* Properties of extract_zip.                                              *)

OutputLoc == resolve(OutputDir)

\* A location is inside the output directory: the directory leads to it.
Inside(loc) == Len(loc) >= Len(OutputLoc) /\ SubSeq(loc, 1, Len(OutputLoc)) = OutputLoc

\* The path of an entry under the output directory, the stored name taken
\* relative to it (an absolute name taken from the root).
EntryPath(name) ==
    IF starts_with(name, "/") THEN path_components(name)
    ELSE OutputDir \o path_components(name)

\* An entry name escapes when it is absolute, or when following it from the
\* output directory leaves that directory at some component.
Escapes(name) ==
    \/ starts_with(name, "/")
    \/ \E k \in Len(OutputDir)..Len(EntryPath(name)) :
          ~Inside(resolve(SubSeq(EntryPath(name), 1, k)))

\* What extracting the entry k leaves at its location.
Extracted(k) ==
    [loc |-> resolve(EntryPath(zipEntries[k])),
     kind |-> IF is_dir(zipEntries[k]) THEN "dir" ELSE "file"] \in (fs \cup Preexisting)

\* C3: nothing is ever created outside the output directory; an entry whose
\* name escapes never makes the extraction fail (an error names an I/O
\* operation, and one on an entry names an entry that does not escape); and
\* when the extraction succeeds every entry that does not escape is there.
C3_ZipStaysInside ==
    /\ \A f \in fs : Inside(f.loc)
    /\ zipPc = "err" =>
          /\ zipFailed \in { "open", "by_index", "create_dir_all", "create", "copy" }
          /\ zipFailed \in { "create_dir_all", "create", "copy" } => ~Escapes(zipEntries[zi])
    /\ zipPc = "ok" =>
          \A k \in 1..Len(zipEntries) : ~Escapes(zipEntries[k]) => Extracted(k)

\* The extraction succeeded on an archive with an escaping `../` entry and an
\* absolute one, each followed by an entry that was extracted.
C3_Witness ==
    /\ zipPc = "ok"
    /\ \E i, j, k \in 1..Len(zipEntries) :
          /\ i < k /\ j < k
          /\ Escapes(zipEntries[i]) /\ ~starts_with(zipEntries[i], "/")
          /\ starts_with(zipEntries[j], "/")
          /\ ~Escapes(zipEntries[k]) /\ ~is_dir(zipEntries[k]) /\ Extracted(k)

-----------------------------------------------------------------------------
(* Properties of one invocation of the program.                            *)

\* C10: when the URL on the command line is a release-hosting URL, a fetch is
\* preceded by the asset selection and fetches the selected asset's URL, not
\* the URL given; detection, extraction and removal come only after the
\* fetch, in that order.  Fails: main fetches the URL given, whatever it is.
C10_FetchesSelectedAsset ==
    \A k \in 1..Len(trace) :
        /\ (trace[k].op = "fetch" /\ is_github_release_url(cli.url)) =>
              /\ \E j \in 1..(k - 1) :
                    trace[j].op = "select" /\ trace[j].target = trace[k].target
              /\ trace[k].target # cli.url
        /\ trace[k].op = "detect" =>
              \E j \in 1..(k - 1) : trace[j].op = "fetch"
        /\ trace[k].op = "extract" =>
              \E j \in 1..(k - 1) : trace[j].op = "detect"
        /\ trace[k].op = "remove" =>
              \E j \in 1..(k - 1) : trace[j].op = "extract"

-----------------------------------------------------------------------------
(* Properties of extract_file.                                             *)

\* The file name of the input with its last Len(".<format>") characters cut
\* off: the matching suffix stripped, in whatever letter case it is written.
NameStripped ==
    LET name == file_name(arg.path)[1]
        format == format_of(detect_archive_type(arg.path)[1])
    IN  SubSeq(name, 1, Len(name) - (Len(format) + 1))

\* C11: for every input detected as a plain single-stream kind, the output
\* file name is the input file name with the matching compression suffix
\* stripped, and the literal "decompressed" when nothing is left of the name.
\* Fails: DATA.CSV.GZ is written to "decompressed", and for ".gz" the output
\* path is the output directory itself.
C11_OutputNameStripped ==
    output_path # None =>
        output_path[1] =
            path_join(OutputDir, IF NameStripped = "" THEN "decompressed" ELSE NameStripped)

-----------------------------------------------------------------------------
(* Properties of resolve_asset_url.                                        *)

\* C12: once the release is received, when select_best_asset returns None
\* resolve_asset_url returns an error whose message names the platform, the
\* architecture and the tag of the release received; when it returns an
\* asset, resolve_asset_url returns Ok with the download URL and the name of
\* that asset of the release.
C12_ErrorNamesTargetAndTag ==
    (selPc = "done" /\ ret # None) =>
        IF selected = None
        THEN /\ ~ret[1].ok
             /\ contains(ret[1].error, platform)
             /\ contains(ret[1].error, arch)
             /\ contains(ret[1].error, arg.release.tag_name)
        ELSE /\ ret[1].ok
             /\ ret[1].url = arg.release.assets[selected[1]].browser_download_url
             /\ ret[1].name = arg.release.assets[selected[1]].name

\* A release with assets, none of them for the target, and the error returned.
C12_Witness ==
    /\ selPc = "done"
    /\ ret # None
    /\ selected = None
    /\ Len(arg.release.assets) > 0
    /\ ~ret[1].ok

-----------------------------------------------------------------------------
(* Properties of the steps of one invocation.                              *)

MainDone == mainPc = "exit"
Ran(op) == \E k \in 1..Len(trace) : trace[k].op = op
Times(op) == Cardinality({ k \in 1..Len(trace) : trace[k].op = op })

\* extract_file was called and returned Ok.
ExtractedOk == Ran("extract") /\ failed = None

\* C13: the archive is removed exactly when the extraction succeeded and the
\* keep flag is not set, the removal targets the downloaded file, and once
\* the extraction succeeded the invocation ends with status 0 whether the
\* removal worked or not; without a successful extraction (skipped or
\* failed) nothing is removed.
C13_RemovedIffExtractedAndNotKeep ==
    /\ Ran("remove") => (MainDone /\ trace[Len(trace)] = Remove(downloaded_path[1]))
    /\ MainDone => (Ran("remove") <=> (ExtractedOk /\ ~cli.keep))
    /\ (MainDone /\ ExtractedOk) => exitCode = Some(0)
    /\ (downloaded_path # None /\ ~ExtractedOk) => archiveOnDisk

\* The removal was tried after a successful extraction, it failed (the
\* archive is still there) and the invocation ended with status 0.
C13_Witness ==
    /\ MainDone
    /\ ExtractedOk
    /\ ~cli.keep
    /\ Ran("remove")
    /\ archiveOnDisk
    /\ exitCode = Some(0)

\* C14: once the download or the extraction has failed the invocation is
\* over with status 1 and no step can follow; nothing ran after the failed
\* step (no detection or extraction after a failed download, no removal
\* after either failure) and the failed step ran at most once.
C14_FailureEndsInvocation ==
    /\ failed # None =>
          /\ MainDone
          /\ exitCode = Some(1)
          /\ ~ENABLED NextMain
          /\ ~Ran("remove")
          /\ Times("fetch") <= 1
          /\ Times("extract") <= 1
    /\ failed = Some("download") => (~Ran("detect") /\ ~Ran("extract"))
    /\ failed = Some("extract") => trace[Len(trace)].op = "extract"
    /\ (MainDone /\ failed = None) => exitCode = Some(0)

\* The extraction failed after a fetch, with the keep flag not set.
C14_Witness ==
    /\ failed = Some("extract")
    /\ ~cli.keep
    /\ Ran("fetch")
    /\ exitCode = Some(1)

-----------------------------------------------------------------------------
(* Further properties of detect_archive_type and select_best_asset.        *)

\* The thirteen recognized suffixes.
RecognizedSuffixes ==
    { ".tar.gz", ".tgz", ".tar.bz2", ".tbz2", ".tar.xz", ".txz", ".tar.zst", ".tzst",
      ".zip", ".gz", ".bz2", ".xz", ".zst" }

\* C15: detect_archive_type returns a kind exactly when the lowercased path
\* ends with one of the thirteen recognized suffixes, the same kind for the
\* path written in capitals, and None for every other path; is_extractable
\* is true exactly when the detection returns a kind.
C15_DetectsExactlyRecognized ==
    called =>
        /\ ret # None <=> \E x \in RecognizedSuffixes : ends_with(to_lowercase(arg.path), x)
        /\ ret # None => ret[1] \in ArchiveType
        /\ detect_archive_type(Uppercase(arg.path)) = ret
        /\ is_extractable(arg.path) <=> ret # None

\* A path written with capitals was detected.
C15_Witness ==
    /\ called
    /\ arg.path # to_lowercase(arg.path)
    /\ ret = Some("Bz2")

\* The format bonus as the scoring rule words it: 2 for the preferred format
\* of the target, else 1 for a recognized archive suffix, else 0.
ClaimedBonus(n) ==
    IF (TargetIsWindows /\ IsZip(n)) \/ (~TargetIsWindows /\ IsTarGz(n)) THEN 2
    ELSE IF \E x \in RecognizedSuffixes : ends_with(n, x) THEN 1
    ELSE 0

ClaimedScore(n) == 10 + 5 + ClaimedBonus(n)

\* C16: an asset returned by select_best_asset is an asset of the list, it
\* passes the denylist and matches both platform and architecture, and no
\* asset of the list that does so has a strictly greater score, the score
\* being 10 + 5 + the format bonus.
C16_ReturnedIsBestCandidate ==
    (SelDone /\ selected # None) =>
        LET low == LowerNames
            w == selected[1]
        IN  /\ w \in 1..Len(assets)
            /\ Candidate(low[w])
            /\ best[1].score = ClaimedScore(low[w])
            /\ \A i \in 1..Len(assets) :
                  Candidate(low[i]) => ClaimedScore(low[i]) <= ClaimedScore(low[w])

\* Two candidates of different scores, the one listed later returned.
C16_Witness ==
    /\ SelDone
    /\ selected # None
    /\ LET low == LowerNames
       IN  \E i \in 1..Len(assets) :
              /\ i < selected[1]
              /\ Candidate(low[i])
              /\ ClaimedScore(low[i]) < ClaimedScore(low[selected[1]])

-----------------------------------------------------------------------------
(* Further properties of extract_file.                                     *)

\* extract_zip returned the error of an operation on the entry zi.
ZipEntryFailed ==
    /\ handler = Some("extract_zip")
    /\ zipPc = "err"
    /\ zipFailed # "open"

\* C17: when an operation on the entry i of a zip archive fails, no further
\* entry is processed, extract_file returns that error, and what the entries
\* before i put into the output directory is still there, as is the file of
\* entry i when the failure is in its copy.
C17_ZipFailureKeepsOutput ==
    ZipEntryFailed =>
        /\ ~ENABLED ZipEntry
        /\ ~ENABLED ZipEntryFails
        /\ ~ENABLED ZipReturn
        /\ IF ret = None THEN ENABLED ExtractZipReturns ELSE ret[1] = Err(zipFailed)
        /\ \A k \in 1..(zi - 1) : ~Escapes(zipEntries[k]) => Extracted(k)
        /\ zipFailed = "copy" => Extracted(zi)

\* extract_file returned the error of the copy of a later entry, a file of an
\* earlier entry extracted.
C17_Witness ==
    /\ ZipEntryFailed
    /\ ret # None
    /\ zipFailed = "copy"
    /\ zi > 1
    /\ \E k \in 1..(zi - 1) :
          ~Escapes(zipEntries[k]) /\ ~is_dir(zipEntries[k]) /\ Extracted(k)

-----------------------------------------------------------------------------
(* Properties of the alias tables and of the release references.           *)

\* The tokens of a file name: its pieces between '-' and '.'.
Tokens(n) ==
    UNION { { split(split(n, "-")[i], ".")[j] : j \in 1..Len(split(split(n, "-")[i], ".")) } :
              i \in 1..Len(split(n, "-")) }

\* The tokens of a name that are names of a platform group.
PlatformTokens(n) == Tokens(n) \cap TableNames("platform")

\* The platform groups the target belongs to.
TargetGroups ==
    { g \in 1..Len(PLATFORM_ALIASES) : to_lowercase(platform) \in GroupNames(PLATFORM_ALIASES[g]) }

\* The name has platform tokens, and none of them of a group of the target.
BuiltForAnother(n) ==
    /\ TargetGroups # {}
    /\ PlatformTokens(n) # {}
    /\ \A t \in PlatformTokens(n) : \A g \in TargetGroups : t \notin GroupNames(PLATFORM_ALIASES[g])

\* C19: a file name whose platform tokens all belong to other groups than
\* the target's never platform-matches the target, and select_best_asset
\* never returns an asset with such a name.  Fails: "darwin" holds "win", an
\* alias of windows, so tool-darwin-x86_64.zip matches the target windows.
C19_NoCrossPlatformMatch ==
    SelDone =>
        LET low == LowerNames
        IN  /\ \A i \in 1..Len(assets) :
                  BuiltForAnother(low[i]) => ~platform_match(low[i], platform)
            /\ selected # None => ~BuiltForAnother(low[selected[1]])

\* C20: every release reference parse_github_url returns has a non-empty
\* owner and a non-empty repo.  Fails: https://github.com//r gives the owner
\* "" and https://github.com/o//releases the repo "".
C20_OwnerAndRepoNonEmpty ==
    (called /\ ret # None) => (ret[1].owner # "" /\ ret[1].repo # "")

-----------------------------------------------------------------------------
(* Properties of the two recognizers of archive names.                     *)

\* C21: for every lowercased file name, is_extractable_ext is true exactly
\* when is_extractable is, that is when detect_archive_type returns a kind
\* for the name.
C21_SameArchiveNames ==
    called =>
        /\ ret[1].scorer <=> ret[1].detector
        /\ ret[1].detector <=> detect_archive_type(arg.name) # None

\* A .tzst name, recognized by both, and a .tar name, recognized by neither,
\* are among the names.
C21_Witness ==
    /\ called
    /\ ends_with(arg.name, ".tzst")
    /\ ret[1].scorer
    /\ ret[1].detector
    /\ \E n \in FormatInputs :
          ends_with(n, ".tar") /\ ~is_extractable_ext(n) /\ ~is_extractable(n)

====
